---- MODULE Spec2Model ----
(***************************************************************************)
(* A model of ModuleArgsParser (v2/ansible/parsing/mod_args.py): the       *)
(* normalisation of one task record into (action, args, delegate_to).      *)
(*                                                                         *)
(* Python values are tagged records.  Dictionaries are objects on a heap   *)
(* (a sequence of dict contents, an object's id being its index), so that  *)
(* aliasing, copying and in-place writes are what the code makes them.     *)
(* A Python string is the sequence of its maximal non-whitespace words     *)
(* and of its whitespace characters (each " ").                            *)
(***************************************************************************)
EXTENDS Integers, Sequences, FiniteSets, TLC

VARIABLES
    heap,             \* the dict objects: heap[i] is the content of object i
    task_ds,          \* self._task_ds: a reference to the task record
    order,            \* the iteration order of the task record's items
    snapshot,         \* history: the heap as it was when the parser was built
    pc,               \* position in parse(): idle, action, local_action, scan, finish, done
    thing,            \* parse() locals
    action,
    args,
    delegate_to,
    additional_args,
    idx,              \* number of items of the record already scanned
    source,           \* history: the key that supplied the current action
    matches,          \* history: number of scanned keys that matched a module name
    determined,       \* history: the action as determined, before shell handling
    own,              \* history: the normalized args of the last normalisation, by value
    merged,           \* history: the args as merged, before shell handling, by value
    result,           \* what the last finished parse() returned or raised, by value
    prev              \* what the parse() before it returned or raised, by value

vars == <<heap, task_ds, order, snapshot, pc, thing, action, args, delegate_to,
          additional_args, idx, source, matches, determined, own, merged,
          result, prev>>

(***************************************************************************)
(* Bounds                                                                  *)
(***************************************************************************)
MaxKeys == 3          \* a task record has at most MaxKeys keys

(***************************************************************************)
(* Python values                                                           *)
(***************************************************************************)
None == [t |-> "none"]
Str(items) == [t |-> "str", s |-> items]
Word(w) == Str(<<w>>)
Num(n) == [t |-> "int", n |-> n]
Bool(b) == [t |-> "bool", b |-> b]
Ref(i) == [t |-> "dict", id |-> i]
\* a dict literal, not yet an object: used to build the initial heap only
Lit(d) == [t |-> "lit", d |-> d]

EmptyDict == [k \in {} |-> None]
Dict1(k, v) == [x \in {k} |-> v]
\* a with the items of b written over it: dict.update on contents
Overlay(a, b) == [k \in DOMAIN a \cup DOMAIN b |-> IF k \in DOMAIN b THEN b[k] ELSE a[k]]
Without(a, k) == [x \in DOMAIN a \ {k} |-> a[x]]

\* bool(v): the truth value Python gives v
Truthy(h, v) ==
    CASE v.t = "none" -> FALSE
      [] v.t = "str"  -> Len(v.s) > 0
      [] v.t = "int"  -> v.n # 0
      [] v.t = "bool" -> v.b
      [] v.t = "dict" -> DOMAIN h[v.id] # {}

\* the value behind a reference, nested dicts included
RECURSIVE Deep(_, _)
Deep(h, v) ==
    IF v.t = "dict"
    THEN Lit([k \in DOMAIN h[v.id] |-> Deep(h, h[v.id][k])])
    ELSE v

(***************************************************************************)
(* Exceptions and heap primitives                                          *)
(***************************************************************************)
Exc(kind, msg) == [exc |-> kind, msg |-> msg]
\* raise AnsibleParserError(msg, obj=self._task_ds)
AnsibleParserError(msg) == [exc |-> "AnsibleParserError", msg |-> msg]

\* dict(), parse_kv's result, thing.copy(): a new object holding content d
Alloc(h, d) == Append(h, d)
NewId(h) == Len(h) + 1

\* DictUpdate with a fault: the keys the target already holds keep their values
DictUpdateKeepsOld(h, target, v) ==
    CASE v.t = "dict" -> [exc |-> "", msg |-> "",
                          h |-> [h EXCEPT ![target] = Overlay(h[v.id], h[target])]]
      [] v.t = "str"  -> [exc |-> "ValueError",
                          msg |-> "dictionary update sequence element #0 has length 1; 2 is required",
                          h |-> h]
      [] OTHER        -> [exc |-> "TypeError", msg |-> "object is not iterable", h |-> h]

\* target.update(v), target a dict object: a dict is written over the target,
\* a string is iterated character by character (no character is a pair), any
\* other value is not iterable
DictUpdate(h, target, v) ==
    CASE v.t = "dict" -> [exc |-> "", msg |-> "",
                          h |-> [h EXCEPT ![target] = Overlay(h[target], h[v.id])]]
      [] v.t = "str"  -> [exc |-> "ValueError",
                          msg |-> "dictionary update sequence element #0 has length 1; 2 is required",
                          h |-> h]
      [] OTHER        -> [exc |-> "TypeError", msg |-> "object is not iterable", h |-> h]

(***************************************************************************)
(* Strings                                                                 *)
(***************************************************************************)
IsWordItem(x) == x # " "
\* str.split()
Split(s) == SelectSeq(s, IsWordItem)
\* " ".join(tokens)
Join(tokens) ==
    IF Len(tokens) = 0 THEN <<>>
    ELSE [i \in 1..(2 * Len(tokens) - 1) |->
             IF i % 2 = 1 THEN tokens[(i + 1) \div 2] ELSE " "]

(***************************************************************************)
(* The collaborators: the module registry and the key=value tokenizer      *)
(***************************************************************************)
\* the names module_loader knows
module_loader == {"copy", "shell", "command", "script", "ping"}

\* the words of the form key=value, with their key and value
KVWords == {"k1=v1", "args=x"}
KVKey(w) == IF w = "k1=v1" THEN "k1" ELSE "args"
KVVal(w) == IF w = "k1=v1" THEN "v1" ELSE "x"

\* the non-raw tokenizer over the words of a text, left to right: key=value
\* words become options, the other words are collected as free-form text
RECURSIVE KvFold(_, _, _)
KvFold(words, options, raw_params) ==
    IF words = <<>>
    THEN IF Len(raw_params) > 0
         THEN Overlay(options, Dict1("_raw_params", Str(Join(raw_params))))
         ELSE options
    ELSE LET x == Head(words) IN
         IF x \in KVWords
         THEN KvFold(Tail(words), Overlay(options, Dict1(KVKey(x), Word(KVVal(x)))), raw_params)
         ELSE KvFold(Tail(words), options, Append(raw_params, x))

\* parse_kv(args, check_raw): the content of the dict it returns
parse_kv(text, check_raw) ==
    IF check_raw
    THEN Dict1("_raw_params", text)
    ELSE KvFold(Split(text.s), EmptyDict, <<>>)

(***************************************************************************)
(* ModuleArgsParser's helper methods.  Each takes the heap and returns a   *)
(* record holding the heap it leaves (h), what it returns, and the         *)
(* exception it raises (exc, "" when it returns normally).                 *)
(***************************************************************************)
\* _split_module_string(str): (tokens[0], the rest joined); tokens[0] of an
\* empty token list is an IndexError
_split_module_string(str) ==
    LET tokens == Split(str.s) IN
    IF Len(tokens) > 1
    THEN [exc |-> "", msg |-> "", name |-> Word(tokens[1]), rest |-> Str(Join(Tail(tokens)))]
    ELSE IF Len(tokens) = 1
    THEN [exc |-> "", msg |-> "", name |-> Word(tokens[1]), rest |-> Str(<<>>)]
    ELSE [exc |-> "IndexError", msg |-> "list index out of range", name |-> None, rest |-> None]

\* action in ('command', 'shell', 'script')
CheckRaw(act) == act \in {Word("command"), Word("shell"), Word("script")}

\* _handle_shell_weirdness with a fault: command gets _uses_shell as shell does
HandleShellAndCommandAlike(h, act, a) ==
    IF act \notin {Word("shell"), Word("command")}
    THEN [h |-> h, action |-> act, args |-> a]
    ELSE [h |-> [h EXCEPT ![a.id] = Overlay(h[a.id], Dict1("_uses_shell", Bool(TRUE)))],
          action |-> Word("command"), args |-> a]

\* _handle_shell_weirdness(action, args)
_handle_shell_weirdness(h, act, a) ==
    IF act \notin {Word("shell"), Word("command")}
    THEN [h |-> h, action |-> act, args |-> a]
    ELSE IF act = Word("shell")
    THEN [h |-> [h EXCEPT ![a.id] = Overlay(h[a.id], Dict1("_uses_shell", Bool(TRUE)))],
          action |-> Word("command"), args |-> a]
    ELSE [h |-> h, action |-> act, args |-> a]

\* _normalize_old_style_args(thing, action)
_normalize_old_style_args(h, th, act) ==
    CASE th.t = "dict" -> [exc |-> "", msg |-> "", h |-> h, args |-> th]
      [] th.t = "str"  -> [exc |-> "", msg |-> "",
                           h |-> Alloc(h, parse_kv(th, CheckRaw(act))),
                           args |-> Ref(NewId(h))]
      [] th.t = "none" -> [exc |-> "", msg |-> "", h |-> h, args |-> None]
      [] OTHER -> AnsibleParserError("unexpected parameter type in action") @@
                  [h |-> h, args |-> None]

\* _normalize_new_style_args(thing)
_normalize_new_style_args(h, th) ==
    CASE th.t = "dict" ->
            LET h1 == Alloc(h, h[th.id])        \* thing = thing.copy()
                c1 == NewId(h)
            IN  IF "module" \in DOMAIN h1[c1]
                THEN [exc |-> "", msg |-> "",
                      \* args = thing.copy(); del args['module']
                      h |-> Alloc(h1, Without(h1[c1], "module")),
                      action |-> h1[c1]["module"],
                      args |-> Ref(NewId(h1))]
                ELSE [exc |-> "", msg |-> "", h |-> h1, action |-> None, args |-> None]
      [] th.t = "str" ->
            LET sp == _split_module_string(th) IN
            IF sp.exc # ""
            THEN [exc |-> sp.exc, msg |-> sp.msg, h |-> h, action |-> None, args |-> None]
            ELSE [exc |-> "", msg |-> "",
                  h |-> Alloc(h, parse_kv(sp.rest, CheckRaw(sp.name))),
                  action |-> sp.name,
                  args |-> Ref(NewId(h))]
      [] OTHER -> AnsibleParserError("unexpected parameter type in action") @@
                  [h |-> h, action |-> None, args |-> None]

\* old style when the action is known, new style otherwise (lines 132-135)
Normalize(h, th, act) ==
    IF act # None
    THEN _normalize_old_style_args(h, th, act) @@ [action |-> act]
    ELSE _normalize_new_style_args(h, th)

\* if args and 'args' in args: args = args['args'] (lines 138-139)
Unwrap(h, a) ==
    IF Truthy(h, a) /\ "args" \in DOMAIN h[a.id] THEN h[a.id]["args"] ELSE a

\* InitFinalArgs with a fault: the additional args dict itself becomes final_args
InitFinalArgsAliased(h, additional) ==
    LET h0 == Alloc(h, EmptyDict) IN
    IF Truthy(h0, additional)
    THEN IF additional.t = "dict"
         THEN [exc |-> "", msg |-> "", h |-> h0, final_args |-> additional.id]
         ELSE DictUpdate(h0, NewId(h), additional) @@ [final_args |-> NewId(h)]
    ELSE [exc |-> "", msg |-> "", h |-> h0, final_args |-> NewId(h)]

\* final_args = dict(), updated with the additional args if there are any
\* (lines 124-126)
InitFinalArgs(h, additional) ==
    LET h0 == Alloc(h, EmptyDict) IN
    IF Truthy(h0, additional)
    THEN DictUpdate(h0, NewId(h), additional) @@ [final_args |-> NewId(h)]
    ELSE [exc |-> "", msg |-> "", h |-> h0, final_args |-> NewId(h)]

\* _normalize_parameters(thing, action, additional_args)
_normalize_parameters(h, th, act, additional) ==
    LET u1 == InitFinalArgs(h, additional)
        final_args == u1.final_args
        failed == [h |-> h, action |-> None, args |-> None, own |-> None]
    IN  IF u1.exc # "" THEN Exc(u1.exc, u1.msg) @@ failed
        ELSE LET n == Normalize(u1.h, th, act) IN
        IF n.exc # "" THEN Exc(n.exc, n.msg) @@ failed
        ELSE LET a == Unwrap(n.h, n.args)
                 u2 == IF Truthy(n.h, a)
                       THEN DictUpdate(n.h, final_args, a)
                       ELSE [exc |-> "", msg |-> "", h |-> n.h]
        IN  IF u2.exc # "" THEN Exc(u2.exc, u2.msg) @@ failed
            ELSE [exc |-> "", msg |-> "", h |-> u2.h, action |-> n.action,
                  args |-> Ref(final_args), own |-> Deep(n.h, a)]


(***************************************************************************)
(* Task records                                                            *)
(***************************************************************************)
\* the keys a task record is built from: the special keys, two module
\* names, the reserved name meta, and a key that names no module
TopKeys == {"action", "local_action", "args", "shell", "meta", "name"}

\* the values of action and local_action
ActionThings ==
    { None,
      Num(5),
      Str(<<>>),
      Str(<<" ">>),
      Str(<<"shell", " ", "echo", " ", "hi">>),
      Str(<<"copy", " ", "k1=v1">>),
      Str(<<"command", " ", "args=x">>),
      Lit(Dict1("k1", Word("v1"))),
      Lit([k \in {"module", "args"} |->
              IF k = "module" THEN Word("copy") ELSE Lit(Dict1("k1", Num(1)))]),
      Lit([k \in {"module", "k1"} |->
              IF k = "module" THEN Word("shell") ELSE Word("v1")]),
      Lit(Dict1("module", Str(<<>>))) }

\* the values of a key that names a module
ModuleThings ==
    { None,
      Num(5),
      Str(<<" ">>),
      Str(<<"copy", " ", "k1=v1">>),
      Str(<<"command", " ", "args=x">>),
      Lit([k \in {"module", "args"} |->
              IF k = "module" THEN Word("copy") ELSE Lit(Dict1("k1", Num(1)))]),
      Lit([k \in {"module", "k1"} |->
              IF k = "module" THEN Word("shell") ELSE Word("v1")]),
      Lit(Dict1("args", Lit(Dict1("args", Word("x"))))) }

\* the values of the args key
ArgsThings ==
    { None,
      Num(5),
      Word("x"),
      Lit(EmptyDict),
      Lit([k \in {"k1", "k2"} |-> IF k = "k1" THEN Word("default") ELSE Word("default2")]) }

ValuesFor(k) ==
    CASE k = "args" -> ArgsThings
      [] k = "name" -> {Word("x")}
      [] k \in {"action", "local_action"} -> ActionThings
      [] OTHER      -> ModuleThings

\* the orders in which a dict with these keys may iterate
Orders(keys) ==
    {o \in [1..Cardinality(keys) -> keys] : \A i, j \in DOMAIN o : o[i] = o[j] => i = j}

\* the heap holding a literal: nested dicts become objects of their own,
\* the literal's own object last
RECURSIVE Store(_, _)
RECURSIVE StoreItems(_, _, _, _)
Store(h, v) ==
    IF v.t # "lit" THEN [h |-> h, v |-> v]
    ELSE LET r == StoreItems(h, v.d, DOMAIN v.d, EmptyDict)
         IN  [h |-> Alloc(r.h, r.d), v |-> Ref(NewId(r.h))]
StoreItems(h, d, keys, acc) ==
    IF keys = {} THEN [h |-> h, d |-> acc]
    ELSE LET k == CHOOSE x \in keys : TRUE
             r == Store(h, d[k])
         IN  StoreItems(r.h, d, keys \ {k}, Overlay(acc, Dict1(k, r.v)))

(***************************************************************************)
(* parse()                                                                 *)
(***************************************************************************)
NoResult == [status |-> "none"]
Raised(e) == [status |-> "raise", exc |-> e.exc, msg |-> e.msg, obj |-> task_ds]
Returned(h, act, a, d) ==
    [status |-> "ok", action |-> act, args |-> Deep(h, a), delegate_to |-> d]

Record == heap[task_ds.id]

\* item in module_loader or item == 'meta' (line 259)
IsModuleKey(item) == item \in module_loader \/ item = "meta"
\* if action is not None (line 249): action and local_action are mutually exclusive
MutuallyExclusive(act) == act # None
\* Conflicting with a fault: a later module key silently overrides the action
ConflictingNever(act) == FALSE
\* if action is not None (line 261): finding more than one module name is a problem
Conflicting(act) == act # None
\* NoActionDetected with a fault: the completion check is missing
NoActionDetectedNever(act) == FALSE
\* if action is None (line 268): no module in the task at all
NoActionDetected(act) == act = None

Init ==
    \E keys \in SUBSET TopKeys :
        /\ Cardinality(keys) <= MaxKeys
        /\ \E rec \in [keys -> ActionThings \cup ModuleThings \cup ArgsThings] :
            /\ \A k \in keys : rec[k] \in ValuesFor(k)
            /\ heap = Store(<<>>, Lit(rec)).h
            /\ task_ds = Ref(Len(heap))
            /\ snapshot = heap
        /\ order \in Orders(keys)
        /\ pc = "idle"
        /\ thing = None
        /\ action = None
        /\ args = None
        /\ delegate_to = None
        /\ additional_args = None
        /\ idx = 0
        /\ source = ""
        /\ matches = 0
        /\ determined = None
        /\ own = None
        /\ merged = None
        /\ result = NoResult
        /\ prev = NoResult

\* parse() is called (lines 219-235).  What an earlier call returned is the
\* caller's: the parser keeps no reference to it, and the objects that call
\* created are dropped from the heap.
ParseBegin ==
    /\ pc \in {"idle", "done"}
    /\ LET h0 == SubSeq(heap, 1, Len(snapshot))
           h1 == Alloc(h0, EmptyDict)            \* args = dict()
           h2 == Alloc(h1, EmptyDict)            \* the default of get: dict()
       IN  /\ heap' = h2
           /\ args' = Ref(NewId(h0))
           /\ additional_args' = IF "args" \in DOMAIN h0[task_ds.id]
                                 THEN h0[task_ds.id]["args"]
                                 ELSE Ref(NewId(h1))
    /\ thing' = None
    /\ action' = None
    /\ delegate_to' = None
    /\ idx' = 0
    /\ source' = ""
    /\ matches' = 0
    /\ determined' = None
    /\ own' = None
    /\ merged' = None
    /\ prev' = result
    /\ pc' = "action"
    /\ UNCHANGED <<task_ds, order, snapshot, result>>

\* the action key (lines 238-243)
ParseAction ==
    /\ pc = "action"
    /\ IF "action" \in DOMAIN Record
       THEN LET r == _normalize_parameters(heap, Record["action"], None, additional_args)
            IN  /\ thing' = Record["action"]
                /\ delegate_to' = None
                /\ IF r.exc # ""
                   THEN /\ pc' = "done"
                        /\ result' = Raised(r)
                        /\ UNCHANGED <<heap, action, args, source, own>>
                   ELSE /\ pc' = "local_action"
                        /\ heap' = r.h
                        /\ action' = r.action
                        /\ args' = r.args
                        /\ own' = r.own
                        /\ source' = IF r.action # None THEN "action" ELSE source
                        /\ UNCHANGED result
       ELSE /\ pc' = "local_action"
            /\ UNCHANGED <<heap, thing, action, args, delegate_to, source, own, result>>
    /\ UNCHANGED <<task_ds, order, snapshot, additional_args, idx, matches, determined,
                   merged, prev>>

\* the local_action key (lines 246-253)
ParseLocalAction ==
    /\ pc = "local_action"
    /\ IF "local_action" \in DOMAIN Record
       THEN IF MutuallyExclusive(action)
            THEN /\ pc' = "done"
                 /\ result' = Raised(AnsibleParserError("action and local_action are mutually exclusive"))
                 /\ UNCHANGED <<heap, thing, action, args, delegate_to, source, own>>
            ELSE LET r == _normalize_parameters(heap, Record["local_action"], None, additional_args)
                 IN  /\ thing' = Record["local_action"]
                     /\ delegate_to' = Word("localhost")
                     /\ IF r.exc # ""
                        THEN /\ pc' = "done"
                             /\ result' = Raised(r)
                             /\ UNCHANGED <<heap, action, args, source, own>>
                        ELSE /\ pc' = IF Len(order) = 0 THEN "finish" ELSE "scan"
                             /\ heap' = r.h
                             /\ action' = r.action
                             /\ args' = r.args
                             /\ own' = r.own
                             /\ source' = IF r.action # None THEN "local_action" ELSE source
                             /\ UNCHANGED result
       ELSE /\ pc' = IF Len(order) = 0 THEN "finish" ELSE "scan"
            /\ UNCHANGED <<heap, thing, action, args, delegate_to, source, own, result>>
    /\ UNCHANGED <<task_ds, order, snapshot, additional_args, idx, matches, determined,
                   merged, prev>>

\* one turn of the loop over the record's items (lines 258-265)
ParseScan ==
    /\ pc = "scan"
    /\ idx < Len(order)
    /\ idx' = idx + 1
    /\ LET item == order[idx + 1]
           value == Record[item]
           next == IF idx + 1 = Len(order) THEN "finish" ELSE "scan"
       IN  IF IsModuleKey(item)
           THEN /\ matches' = matches + 1
                /\ IF Conflicting(action)
                   THEN /\ pc' = "done"
                        /\ result' = Raised(AnsibleParserError("conflicting action statements"))
                        /\ UNCHANGED <<heap, thing, action, args, source, own>>
                   ELSE LET r == _normalize_parameters(heap, value, Word(item), additional_args)
                        IN  /\ thing' = value
                            /\ IF r.exc # ""
                               THEN /\ pc' = "done"
                                    /\ result' = Raised(r)
                                    /\ action' = Word(item)
                                    /\ UNCHANGED <<heap, args, source, own>>
                               ELSE /\ pc' = next
                                    /\ heap' = r.h
                                    /\ action' = r.action
                                    /\ args' = r.args
                                    /\ own' = r.own
                                    /\ source' = item
                                    /\ UNCHANGED result
           ELSE /\ pc' = next
                /\ UNCHANGED <<heap, thing, action, args, source, own, result, matches>>
    /\ UNCHANGED <<task_ds, order, snapshot, additional_args, delegate_to, determined,
                   merged, prev>>

\* the end of parse() (lines 268-274)
ParseFinish ==
    /\ pc = "finish"
    /\ pc' = "done"
    /\ determined' = action
    /\ merged' = Deep(heap, args)
    /\ IF NoActionDetected(action)
       THEN /\ result' = Raised(AnsibleParserError("no action detected in task"))
            /\ UNCHANGED <<heap, action, args>>
       ELSE LET r == _handle_shell_weirdness(heap, action, args)
            IN  /\ heap' = r.h
                /\ action' = r.action
                /\ args' = r.args
                /\ result' = Returned(r.h, r.action, r.args, delegate_to)
    /\ UNCHANGED <<task_ds, order, snapshot, thing, delegate_to, additional_args, idx,
                   source, matches, own, prev>>

Next ==
    \/ ParseBegin
    \/ ParseAction
    \/ ParseLocalAction
    \/ ParseScan
    \/ ParseFinish

Spec == Init /\ [][Next]_vars


(***************************************************************************)
(* Properties                                                              *)
(***************************************************************************)
\* the task record as the parser was given it
GivenRecord == snapshot[task_ds.id]
Given(k) == Deep(snapshot, GivenRecord[k])
Has(k) == k \in DOMAIN GivenRecord
\* the keys of the record that name a known operation
KnownKeys == {k \in DOMAIN GivenRecord : k \in {"copy", "shell", "command", "script", "ping", "meta"}}
Done == pc = "done"
Succeeded == pc = "done" /\ result.status = "ok"
Failed(msg) ==
    /\ pc = "done"
    /\ result.status = "raise"
    /\ result.exc = "AnsibleParserError"
    /\ result.msg = msg
    /\ result.obj = task_ds
\* the errors of the Python runtime, which are not AnsibleParserError
RuntimeErrors == {"IndexError", "ValueError", "TypeError"}
\* the content of a value that is a mapping, the empty mapping otherwise
ContentOf(v) == IF v.t = "lit" THEN v.d ELSE EmptyDict

\* C1: a record with both action and local_action never yields a triple: parse()
\* fails with AnsibleParserError (the runtime errors of C3 set aside).
C1_ActionAndLocalActionFail ==
    (Done /\ Has("action") /\ Has("local_action")) =>
        /\ result.status = "raise"
        /\ result.exc \in {"AnsibleParserError"} \cup RuntimeErrors

\* C2 as stated: a record with two keys that name known operations fails with
\* "conflicting action statements", whatever the scan order and the values.
C2_AlwaysConflicting ==
    (Done /\ Cardinality(KnownKeys) >= 2) => Failed("conflicting action statements")

\* C2 as amended: a record with two keys that name known operations never
\* yields a triple, and once the scan has met a second such key the failure is
\* "conflicting action statements"; any other failure was raised before that.
C2_TwoModuleKeysFail ==
    (Done /\ Cardinality(KnownKeys) >= 2) =>
        /\ result.status = "raise"
        /\ matches >= 2 => Failed("conflicting action statements")
        /\ matches <= 2

C2_Witness ==
    /\ Cardinality(KnownKeys) >= 2
    /\ Failed("conflicting action statements")
    /\ matches = 2
    /\ ~Has("action")
    /\ ~Has("local_action")

\* C3: parse() returns a triple or raises AnsibleParserError, nothing else.
C3_OnlyParserErrors ==
    Done => (result.status = "ok" \/ result.exc = "AnsibleParserError")

\* C4: the returned parameters hold no module key and no args key.
C4_NoModuleNoArgsKey ==
    Succeeded => /\ "module" \notin DOMAIN result.args.d
                 /\ "args" \notin DOMAIN result.args.d

\* C5: when the record's args is a mapping D, the returned parameters are D
\* overlaid with the operation's own normalized parameters P, with
\* _uses_shell = True on top when the operation was shell.
C5_MergePrecedence ==
    (Succeeded /\ Has("args") /\ Given("args").t = "lit") =>
        result.args.d =
            Overlay(Overlay(Given("args").d, ContentOf(own)),
                    IF determined = Word("shell")
                    THEN Dict1("_uses_shell", Bool(TRUE)) ELSE EmptyDict)

\* a success where P and D collide on k1 and P's value is returned
C5_Witness ==
    /\ Succeeded
    /\ Has("args")
    /\ Given("args").t = "lit"
    /\ "k1" \in DOMAIN Given("args").d
    /\ "k1" \in DOMAIN ContentOf(own)
    /\ own.d["k1"] # Given("args").d["k1"]
    /\ result.args.d["k1"] = own.d["k1"]
    /\ result.args.d["k2"] = Given("args").d["k2"]

\* C6: shell is returned as command with _uses_shell = True added to the
\* merged parameters; command and every other operation are returned as
\* determined, with the merged parameters and nothing added.
C6_ShellRewriting ==
    Succeeded =>
        IF determined = Word("shell")
        THEN /\ result.action = Word("command")
             /\ result.args.d = Overlay(merged.d, Dict1("_uses_shell", Bool(TRUE)))
        ELSE /\ result.action = determined
             /\ result.args = merged

C6_Witness ==
    /\ Succeeded
    /\ determined = Word("shell")
    /\ result.action = Word("command")
    /\ result.args.d["_uses_shell"] = Bool(TRUE)
    /\ "_uses_shell" \notin DOMAIN merged.d

\* C7: delegate_to is None or "localhost": "localhost" when local_action
\* supplied the operation, None when action or a module key supplied it.
C7_DelegateTo ==
    Succeeded =>
        /\ result.delegate_to \in {None, Word("localhost")}
        /\ source = "local_action" => result.delegate_to = Word("localhost")
        /\ source # "local_action" => result.delegate_to = None

\* C8: a record with no action key, no local_action key and no key naming a
\* known operation fails with "no action detected in task".
C8_NoActionDetected ==
    (Done /\ ~Has("action") /\ ~Has("local_action") /\ KnownKeys = {}) =>
        Failed("no action detected in task")

C8_Witness ==
    /\ Failed("no action detected in task")
    /\ KnownKeys = {}
    /\ Has("name")
    /\ Has("args")
    /\ idx = Len(order)

\* C9: the returned operation is a non-empty string.
C9_OperationNonEmptyString ==
    Succeeded => (result.action.t = "str" /\ Len(result.action.s) > 0)

\* C10: the task record and every mapping nested in it stay as they were
\* given, during and after every call, and a repeated parse() ends as the
\* call before it did.
C10_InputNotMutated ==
    /\ Len(heap) >= Len(snapshot)
    /\ \A i \in 1..Len(snapshot) : heap[i] = snapshot[i]
    /\ (Done /\ prev # NoResult) => result = prev

\* a second shell parse of a record whose args and operation value are mappings
C10_Witness ==
    /\ Succeeded
    /\ prev = result
    /\ determined = Word("shell")
    /\ Has("args")
    /\ Given("args").t = "lit"
    /\ Given("args").d # EmptyDict
    /\ thing.t = "dict"
    /\ "module" \in DOMAIN heap[thing.id]


====
